---- MODULE Spec2Model ----
(***************************************************************************)
(* Request-scoped secret context of dotenvx-wrangler-vars-demo.            *)
(*                                                                         *)
(*   src/src/secrets.ts         withSecrets / getSecret / requireSecret /  *)
(*                              getBinding / getEnv   (variant "bindings") *)
(*   src/unnamed/part_000       withSecrets / getSecret / requireSecret /  *)
(*                              getAllSecrets         (variant "strings")  *)
(*   src/src/dotenvx-decrypt.ts decryptValue / isEncrypted / decryptEnv    *)
(*                                                                         *)
(* JavaScript values are records [type, s, id]: type is the result of      *)
(* typeof, s the characters of a string, id the identity of an object.     *)
(* Objects (the env bag, the snapshot) are functions from their own        *)
(* property names to values; a property read falls back to                 *)
(* Object.prototype.  The dotenvx primitive is an external black box: its  *)
(* outcome for a name is drawn nondeterministically (a plaintext, nothing, *)
(* or an exception).  AsyncLocalStorage is the platform's: the store of    *)
(* the executing async context is `current`, a suspended continuation      *)
(* keeps the store it was created under in `captured`.                     *)
(***************************************************************************)
EXTENDS Integers, Sequences, FiniteSets, TLC

VARIABLES
    variant,    \* which secrets module the worker is built with
    pc,         \* per request chain: position of its call chain
    running,    \* the chain whose code is executing, or NoChain (event loop)
    current,    \* AsyncLocalStorage: store of the executing async context
    captured,   \* per chain: store captured by its pending continuation
    bag,        \* per chain: the env object passed to withSecrets
    oracle,     \* per chain: what the primitive did for each name it was invoked for
    heap,       \* per chain: the snapshot object handed to envStore.run
    writes,     \* per chain: number of modifications the handler has made
    snap0,      \* per chain: the snapshot as it was when the handler was invoked
    calls,      \* per chain: names the primitive was invoked for, in order
    log,        \* per chain: names logged by console.error, in order
    ret,        \* the last accessor call and its result
    pIn,        \* direct call of a snapshot-building function: its inputs
    pOut,       \* direct call of a snapshot-building function: its result
    proxy       \* the object createDecryptProxy(pIn.env) returned, and its reads

vars == <<variant, pc, running, current, captured, bag, oracle, heap, writes,
          snap0, calls, log, ret, pIn, pOut, proxy>>

chainVars == <<pc, running, current, captured, bag, oracle, heap, writes,
               snap0, calls, log, ret>>

-----------------------------------------------------------------------------
(* Bounds *)

\* modifications a handler makes to a mapping an accessor returned
MaxWrites == 1

\* reads made through one lazy proxy
MaxReads == 3

Chains == {"r1", "r2"}
NoChain == "none"
NoStore == "none"

-----------------------------------------------------------------------------
(* JavaScript values *)

Str(chars) == [type |-> "string", s |-> chars, id |-> "-"]
Handle(i) == [type |-> "object", s |-> <<>>, id |-> i]
Undefined == [type |-> "undefined", s |-> <<>>, id |-> "-"]
ObjectCtor == [type |-> "function", s |-> <<>>, id |-> "Object"]

\* the literal 'encrypted:'
Marker == <<"e", "n", "c", "r", "y", "p", "t", "e", "d", ":">>

\* String.prototype.startsWith
startsWith(s, prefix) ==
    /\ Len(s) >= Len(prefix)
    /\ SubSeq(s, 1, Len(prefix)) = prefix

\* ToBoolean
Truthy(v) ==
    CASE v.type = "undefined" -> FALSE
      [] v.type = "string" -> Len(v.s) > 0
      [] OTHER -> TRUE

\* a || b in place of a ?? b
Nullish_or(a, b) == IF Truthy(a) THEN a ELSE b

\* a ?? b
Nullish(a, b) == IF a.type = "undefined" THEN b ELSE a

\* an object literal {} : no own properties
EmptyObj == [n \in {} |-> Undefined]

\* properties every object literal inherits from Object.prototype
ObjectPrototype == [constructor |-> ObjectCtor]

\* obj[key]
Get(obj, key) ==
    IF key \in DOMAIN obj THEN obj[key]
    ELSE IF key \in DOMAIN ObjectPrototype THEN ObjectPrototype[key]
    ELSE Undefined

\* obj[key] = value
Put(obj, key, value) ==
    [n \in (DOMAIN obj) \cup {key} |-> IF n = key THEN value ELSE obj[n]]

\* delete obj[key]
Delete(obj, key) == [n \in (DOMAIN obj) \ {key} |-> obj[n]]

\* { ...obj }
Spread(obj) == [n \in DOMAIN obj |-> obj[n]]

PRIVATE_KEY == "DOTENV_PRIVATE_KEY"

\* names in insertion order, as Object.entries enumerates them
KeyOrder == <<PRIVATE_KEY, "MY_SECRET", "DB">>

RECURSIVE entriesFrom(_, _)
entriesFrom(obj, i) ==
    IF i > Len(KeyOrder) THEN <<>>
    ELSE IF KeyOrder[i] \in DOMAIN obj
         THEN <<KeyOrder[i]>> \o entriesFrom(obj, i + 1)
         ELSE entriesFrom(obj, i + 1)

\* Object.entries(obj), as the sequence of its keys
entries(obj) == entriesFrom(obj, 1)

-----------------------------------------------------------------------------
(* The external primitive and the Decryption Adapter *)

Thrown == [threw |-> TRUE, v |-> Undefined]
Returned(v) == [threw |-> FALSE, v |-> v]

\* what dotenvx.parse can do for one name: recover a plaintext (possibly the
\* empty string), yield nothing for the name, or throw
Outcomes ==
    { Returned(Str(<<"s", "3", "c">>)), Returned(Str(<<"z">>)), Returned(Str(<<>>)),
      Returned(Undefined), Thrown }

\* dotenvx.parse(`${key}="${value}"`, {privateKey, publicKey})[key]
parse(o, key) == IF key \in DOMAIN o THEN o[key] ELSE Returned(Undefined)

\* an adapter that catches what the primitive raises and returns the value
decrypt_catching(o, key, value) ==
    LET parsed == parse(o, key)
    IN  IF parsed.threw THEN Returned(value)
        ELSE Returned(Nullish(parsed.v, value))

\* secrets.ts decrypt
decrypt(o, key, value) ==
    LET parsed == parse(o, key)
    IN  IF parsed.threw THEN Thrown ELSE Returned(Nullish(parsed.v, value))

\* dotenvx-decrypt.ts decryptValue
decryptValue(o, key, encryptedValue) ==
    LET parsed == parse(o, key)
    IN  IF parsed.threw THEN Thrown
        ELSE Returned(Nullish(parsed.v, encryptedValue))

-----------------------------------------------------------------------------
(* Snapshot construction *)

\* the accumulator of a construction loop: the object being filled, the
\* primitive invocations and console.error lines so far, whether an exception
\* escaped, and whether the result is the env object itself
NewAcc == [env |-> EmptyObj, calls |-> <<>>, log |-> <<>>, threw |-> FALSE,
           alias |-> FALSE]

\* the decrypt call without its try / catch
TryDecrypt_nocatch(acc, o, key, value) ==
    LET r == decrypt(o, key, value)
    IN  IF r.threw
        THEN [acc EXCEPT !.calls = Append(@, key), !.threw = TRUE]
        ELSE [acc EXCEPT !.env = Put(@, key, r.v),
                         !.calls = Append(@, key)]

\* a catch block that attempts the decryption a second time before falling back
TryDecrypt_retry(acc, o, key, value) ==
    LET r == decrypt(o, key, value)
    IN  IF r.threw
        THEN [acc EXCEPT !.env = Put(@, key, value),
                         !.calls = Append(Append(@, key), key),
                         !.log = Append(@, key)]
        ELSE [acc EXCEPT !.env = Put(@, key, r.v),
                         !.calls = Append(@, key)]

\* try { acc[key] = decrypt(key, value, ...) }
\* catch (error) { console.error(...); acc[key] = value }
TryDecrypt(acc, o, key, value) ==
    LET r == decrypt(o, key, value)
    IN  IF r.threw
        THEN [acc EXCEPT !.env = Put(@, key, value),
                         !.calls = Append(@, key),
                         !.log = Append(@, key)]
        ELSE [acc EXCEPT !.env = Put(@, key, r.v),
                         !.calls = Append(@, key)]

\* dotenvx-decrypt.ts isEncrypted
isEncrypted(value) == value.type = "string" /\ startsWith(value.s, Marker)

\* loop body of withSecrets in src/src/secrets.ts
StepBindings(acc, o, key, value, privateKey) ==
    IF value.type = "string" /\ startsWith(value.s, Marker) /\ Truthy(privateKey)
    THEN TryDecrypt(acc, o, key, value)
    ELSE [acc EXCEPT !.env = Put(@, key, value)]

\* loop body of withSecrets in src/unnamed/part_000
StepStrings(acc, o, key, value, privateKey) ==
    IF value.type = "string"
    THEN IF startsWith(value.s, Marker) /\ Truthy(privateKey)
         THEN TryDecrypt(acc, o, key, value)
         ELSE [acc EXCEPT !.env = Put(@, key, value)]
    ELSE acc

\* loop body of decryptEnv
StepDecryptEnv(acc, o, key, value, privateKey) ==
    IF isEncrypted(value)
    THEN TryDecrypt(acc, o, key, value)
    ELSE IF value.type = "string"
         THEN [acc EXCEPT !.env = Put(@, key, value)]
         ELSE acc

Step(kind, acc, o, key, value, privateKey) ==
    CASE kind = "bindings" -> StepBindings(acc, o, key, value, privateKey)
      [] kind = "strings" -> StepStrings(acc, o, key, value, privateKey)
      [] kind = "decryptEnv" -> StepDecryptEnv(acc, o, key, value, privateKey)

RECURSIVE Loop(_, _, _, _, _, _, _)
\* for (const [key, value] of Object.entries(env)) { ... } ; an exception that
\* escapes the body ends the loop
Loop(kind, acc, o, env, privateKey, keys, i) ==
    IF i > Len(keys) \/ acc.threw THEN acc
    ELSE Loop(kind, Step(kind, acc, o, keys[i], env[keys[i]], privateKey),
              o, env, privateKey, keys, i + 1)

\* envStore.run reached from inside the loop, after its first iteration
withSecrets_early(kind, env, o) ==
    LET privateKey == Get(env, PRIVATE_KEY)
        keys == entries(env)
    IN  Loop(kind, NewAcc, o, env, privateKey,
             SubSeq(keys, 1, IF Len(keys) > 1 THEN 1 ELSE Len(keys)), 1)

\* withSecrets up to, not including, envStore.run: the object it builds
withSecrets(kind, env, o) ==
    LET privateKey == Get(env, PRIVATE_KEY)
    IN  Loop(kind, NewAcc, o, env, privateKey, entries(env), 1)

\* decryptEnv without the early return on a missing private key
decryptEnv_nokeycheck(env, o) ==
    Loop("decryptEnv", NewAcc, o, env, Get(env, PRIVATE_KEY), entries(env), 1)

\* decryptEnv(env)
decryptEnv(env, o) ==
    LET privateKey == Get(env, PRIVATE_KEY)
    IN  IF privateKey.type # "string"
        THEN [NewAcc EXCEPT !.env = env, !.alias = TRUE]
        ELSE Loop("decryptEnv", NewAcc, o, env, privateKey, entries(env), 1)

-----------------------------------------------------------------------------
(* Inputs *)

Plain == Str(<<"e", "n", "c", "r", "y", "p", "t", "e", "d">>)
Cipher(c) == Str(Marker \o <<c>>)
Tampered == Str(<<"t">>)

\* the values a name of the env bag can hold; who is a chain, or "direct" for a
\* direct call of a snapshot-building function
ValuesOf(who, name) ==
    CASE who = "r1" ->
            (CASE name = PRIVATE_KEY -> {Str(<<>>), Str(<<"k">>)}
               [] name = "MY_SECRET" -> {Plain, Cipher("a"), Handle("KV")}
               [] name = "DB" -> {Handle("D1"), Cipher("b")})
      [] who = "r2" ->
            (CASE name = PRIVATE_KEY -> {Str(<<"k">>)}
               [] name = "MY_SECRET" -> {Cipher("z")}
               [] name = "DB" -> {Handle("D2")})
      [] who = "direct" ->
            (CASE name = PRIVATE_KEY -> {Str(<<>>), Str(<<"k">>), Handle("KV")}
               [] name = "MY_SECRET" ->
                     {Plain, Cipher("a"), Str(Marker), Handle("KV")}
               [] name = "DB" -> {Handle("D1"), Cipher("b")})

DomainsOf(who) ==
    CASE who = "r1" -> {{"MY_SECRET", "DB"}, {PRIVATE_KEY, "MY_SECRET", "DB"}}
      [] who = "r2" -> {{PRIVATE_KEY, "MY_SECRET", "DB"}}
      [] who = "direct" -> SUBSET {PRIVATE_KEY, "MY_SECRET", "DB"}

\* the env bags of who
BagsOf(who) ==
    UNION { {b \in [d -> UNION {ValuesOf(who, n) : n \in d}] :
                \A n \in d : b[n] \in ValuesOf(who, n)} : d \in DomainsOf(who) }

OutcomesOf(who, name) ==
    CASE who = "r1" ->
            IF name = "MY_SECRET"
            THEN {Returned(Str(<<"s", "3", "c">>)), Returned(Str(<<>>)),
                  Returned(Undefined), Thrown}
            ELSE {Returned(Str(<<"s", "3", "c">>)), Thrown}
      [] who = "r2" -> {Returned(Str(<<"z">>))}
      [] who = "direct" -> Outcomes

MarkedNames(b) == {n \in DOMAIN b : isEncrypted(b[n])}

\* the outcomes of the primitive for the marked names of bag b
OraclesOf(c, b) ==
    {o \in [MarkedNames(b) -> Outcomes] :
        \A n \in MarkedNames(b) : o[n] \in OutcomesOf(c, n)}

LookupNames == {PRIVATE_KEY, "MY_SECRET", "DB", "MISSING", "constructor"}

WriteNames == {"MY_SECRET"}

-----------------------------------------------------------------------------
(* AsyncLocalStorage *)

\* envStore.run(store, handler), on entry: the store of the context the handler
\* runs in
RunEnter(outer, store) == store

\* a run that leaves its store in place on exit
RunExit_keep(outer, inner) == inner

\* envStore.run, when the synchronous part of the handler is over (it returned,
\* threw or suspended): the caller's context is back
RunExit(outer, inner) == outer

\* a continuation resumed under whatever store is current
ResumeStore_stale(c) == current

\* the store a continuation runs under when the event loop resumes it
ResumeStore(c) == captured[c]

\* envStore.getStore()
getStore == current

-----------------------------------------------------------------------------
(* Accessors: the result of a call made in the executing context *)

Ok(v) == [err |-> "none", v |-> v, obj |-> EmptyObj, ref |-> "none"]
OkObj(obj, ref) == [err |-> "none", v |-> Undefined, obj |-> obj, ref |-> ref]
Fail(e) == [err |-> e, v |-> Undefined, obj |-> EmptyObj, ref |-> "none"]

\* getSecret of src/src/secrets.ts
getSecretBindings(key) ==
    LET env == getStore
    IN  IF env = NoStore THEN Fail("NoActiveContext")
        ELSE LET value == Get(heap[env], key)
             IN  Ok(IF value.type = "string" THEN value ELSE Undefined)

\* getSecret of src/unnamed/part_000
getSecretStrings(key) ==
    LET secrets == getStore
    IN  IF secrets = NoStore THEN Fail("NoActiveContext")
        ELSE Ok(Get(heap[secrets], key))

getSecret(key) ==
    IF variant = "bindings" THEN getSecretBindings(key) ELSE getSecretStrings(key)

\* requireSecret with if (!value) in place of if (value === undefined)
requireSecret_falsy(key) ==
    LET value == getSecret(key)
    IN  IF value.err # "none" THEN value
        ELSE IF ~Truthy(value.v) THEN Fail("MissingRequiredValue")
        ELSE value

\* requireSecret (the same text in both modules)
requireSecret(key) ==
    LET value == getSecret(key)
    IN  IF value.err # "none" THEN value
        ELSE IF value.v = Undefined THEN Fail("MissingRequiredValue")
        ELSE value

\* getBinding of src/src/secrets.ts
getBinding(key) ==
    LET env == getStore
    IN  IF env = NoStore THEN Fail("NoActiveContext")
        ELSE Ok(Get(heap[env], key))

\* getEnv of src/src/secrets.ts: the store object itself
getEnv ==
    LET env == getStore
    IN  IF env = NoStore THEN Fail("NoActiveContext")
        ELSE OkObj(heap[env], "store")

\* getAllSecrets of src/unnamed/part_000: a fresh object
getAllSecrets ==
    LET secrets == getStore
    IN  IF secrets = NoStore THEN Fail("NoActiveContext")
        ELSE OkObj(Spread(heap[secrets]), "copy")

-----------------------------------------------------------------------------
(* The request chains *)

NoRet == [by |-> NoChain, inside |-> FALSE, op |-> "none", key |-> "-",
          store |-> NoStore, res |-> Fail("none")]

\* a direct call: its inputs, and per function whether it was called and what
\* it returned
NoInput == [env |-> EmptyObj, o |-> EmptyObj]
NotCalled == [called |-> FALSE, out |-> NewAcc]
NoAdapterCall == [called |-> FALSE, key |-> "-", out |-> Returned(Undefined)]
\* no proxy yet; a proxy is its cache, the adapter calls it has made, and the
\* reads made through it: how many, the first result per name, the last read
NoProxy == [created |-> FALSE, cache |-> EmptyObj, calls |-> <<>>, reads |-> 0,
            first |-> EmptyObj, last |-> [prop |-> "-", value |-> Undefined]]

NoOutput == [withSecrets |-> NotCalled, decryptEnv |-> NotCalled,
             decrypt |-> NoAdapterCall, decryptValue |-> NoAdapterCall]

Init ==
    /\ variant \in {"bindings", "strings"}
    /\ pc = [c \in Chains |-> "idle"]
    /\ running = NoChain
    /\ current = NoStore
    /\ captured = [c \in Chains |-> NoStore]
    /\ bag = [c \in Chains |-> EmptyObj]
    /\ oracle = [c \in Chains |-> EmptyObj]
    /\ heap = [c \in Chains |-> EmptyObj]
    /\ writes = [c \in Chains |-> 0]
    /\ snap0 = [c \in Chains |-> EmptyObj]
    /\ calls = [c \in Chains |-> <<>>]
    /\ log = [c \in Chains |-> <<>>]
    /\ ret = NoRet
    /\ pIn = NoInput
    /\ pOut = NoOutput
    /\ proxy = NoProxy

\* fetch(request, env, ctx) of chain c calls withSecrets(env, handler): the
\* snapshot is built, bound by envStore.run, and the handler starts
Fetch(c, b, o) ==
    /\ running = NoChain
    /\ pc[c] = "idle"
    /\ LET built == withSecrets(variant, b, o)
       IN  /\ bag' = [bag EXCEPT ![c] = b]
           /\ oracle' = [oracle EXCEPT ![c] =
                             [n \in {built.calls[i] : i \in DOMAIN built.calls}
                                 |-> parse(o, n)]]
           /\ calls' = [calls EXCEPT ![c] = built.calls]
           /\ log' = [log EXCEPT ![c] = built.log]
           /\ IF built.threw
              THEN /\ pc' = [pc EXCEPT ![c] = "raised"]
                   /\ UNCHANGED <<running, current, heap, snap0>>
              ELSE /\ pc' = [pc EXCEPT ![c] = "handler"]
                   /\ running' = c
                   /\ heap' = [heap EXCEPT ![c] = built.env]
                   /\ snap0' = [snap0 EXCEPT ![c] = built.env]
                   /\ current' = RunEnter(current, c)
    /\ ret' = NoRet
    /\ UNCHANGED <<variant, captured, writes, pIn, pOut, proxy>>

\* chain c may call an accessor: from its handler while it runs, or from the
\* code around its withSecrets call while no handler runs
CanCall(c) ==
    \/ running = c /\ pc[c] = "handler"
    \/ running = NoChain /\ pc[c] \in {"idle", "done", "failed", "raised"}

Called(c, op, key, res) ==
    /\ ret' = [by |-> c, inside |-> (running = c), op |-> op, key |-> key,
               store |-> getStore, res |-> res]
    /\ UNCHANGED <<variant, pc, running, current, captured, bag, oracle, heap,
                   writes, snap0, calls, log, pIn, pOut, proxy>>

GetSecret(c, key) == CanCall(c) /\ Called(c, "getSecret", key, getSecret(key))

RequireSecret(c, key) ==
    CanCall(c) /\ Called(c, "requireSecret", key, requireSecret(key))

GetBinding(c, key) ==
    /\ variant = "bindings"
    /\ CanCall(c)
    /\ Called(c, "getBinding", key, getBinding(key))

GetEnv(c) ==
    /\ variant = "bindings"
    /\ CanCall(c)
    /\ Called(c, "getEnv", "-", getEnv)

GetAllSecrets(c) ==
    /\ variant = "strings"
    /\ CanCall(c)
    /\ Called(c, "getAllSecrets", "-", getAllSecrets)

\* the handler modifies the mapping getEnv() / getAllSecrets() gives it:
\* m[key] = value, or delete m[key]
Modify(c, key, value) ==
    /\ running = c
    /\ pc[c] = "handler"
    /\ writes[c] < MaxWrites
    /\ LET m == IF variant = "bindings" THEN getEnv ELSE getAllSecrets
       IN  /\ m.err = "none"
           /\ heap' = IF m.ref = "store"
                      THEN [heap EXCEPT ![getStore] =
                               IF value = Undefined THEN Delete(@, key)
                               ELSE Put(@, key, value)]
                      ELSE heap
    /\ writes' = [writes EXCEPT ![c] = @ + 1]
    /\ ret' = NoRet
    /\ UNCHANGED <<variant, pc, running, current, captured, bag, oracle, snap0,
                   calls, log, pIn, pOut, proxy>>

\* the handler reaches a suspension point (await): its continuation keeps the
\* store, control returns to the event loop
Await(c) ==
    /\ running = c
    /\ pc[c] = "handler"
    /\ captured' = [captured EXCEPT ![c] = current]
    /\ current' = RunExit(NoStore, current)
    /\ running' = NoChain
    /\ pc' = [pc EXCEPT ![c] = "suspended"]
    /\ ret' = NoRet
    /\ UNCHANGED <<variant, bag, oracle, heap, writes, snap0, calls, log, pIn,
                   pOut, proxy>>

\* the event loop resumes the continuation of chain c
Resume(c) ==
    /\ running = NoChain
    /\ pc[c] = "suspended"
    /\ current' = ResumeStore(c)
    /\ running' = c
    /\ pc' = [pc EXCEPT ![c] = "handler"]
    /\ ret' = NoRet
    /\ UNCHANGED <<variant, captured, bag, oracle, heap, writes, snap0, calls,
                   log, pIn, pOut, proxy>>

\* the handler completes, by returning (ok) or by throwing
Return(c, ok) ==
    /\ running = c
    /\ pc[c] = "handler"
    /\ current' = RunExit(NoStore, current)
    /\ running' = NoChain
    /\ pc' = [pc EXCEPT ![c] = IF ok THEN "done" ELSE "failed"]
    /\ captured' = [captured EXCEPT ![c] = NoStore]
    /\ ret' = NoRet
    /\ UNCHANGED <<variant, bag, oracle, heap, writes, snap0, calls, log, pIn,
                   pOut, proxy>>

Next ==
    \/ \E c \in Chains : \E b \in BagsOf(c) : \E o \in OraclesOf(c, b) :
          Fetch(c, b, o)
    \/ \E c \in Chains, key \in LookupNames : GetSecret(c, key)
    \/ \E c \in Chains, key \in LookupNames : RequireSecret(c, key)
    \/ \E c \in Chains, key \in LookupNames : GetBinding(c, key)
    \/ \E c \in Chains : GetEnv(c)
    \/ \E c \in Chains : GetAllSecrets(c)
    \/ \E c \in Chains, key \in WriteNames, value \in {Tampered, Undefined} :
          Modify(c, key, value)
    \/ \E c \in Chains : Await(c)
    \/ \E c \in Chains : Resume(c)
    \/ \E c \in Chains, ok \in BOOLEAN : Return(c, ok)

Spec == Init /\ [][Next]_vars

-----------------------------------------------------------------------------
(* Direct calls of the snapshot-building functions on one env object *)

InitDirect ==
    /\ variant \in {"bindings", "strings"}
    /\ pc = [c \in Chains |-> "idle"]
    /\ running = NoChain
    /\ current = NoStore
    /\ captured = [c \in Chains |-> NoStore]
    /\ bag = [c \in Chains |-> EmptyObj]
    /\ oracle = [c \in Chains |-> EmptyObj]
    /\ heap = [c \in Chains |-> EmptyObj]
    /\ writes = [c \in Chains |-> 0]
    /\ snap0 = [c \in Chains |-> EmptyObj]
    /\ calls = [c \in Chains |-> <<>>]
    /\ log = [c \in Chains |-> <<>>]
    /\ ret = NoRet
    /\ \E b \in BagsOf("direct") : \E o \in OraclesOf("direct", b) :
          pIn = [env |-> b, o |-> o]
    /\ pOut = NoOutput
    /\ proxy = NoProxy

\* the construction loop of withSecrets(pIn.env, handler)
CallWithSecrets ==
    /\ ~pOut.withSecrets.called
    /\ pOut' = [pOut EXCEPT !.withSecrets =
                   [called |-> TRUE, out |-> withSecrets(variant, pIn.env, pIn.o)]]
    /\ UNCHANGED <<variant, pIn, proxy, chainVars>>

\* decryptEnv(pIn.env)
CallDecryptEnv ==
    /\ ~pOut.decryptEnv.called
    /\ pOut' = [pOut EXCEPT !.decryptEnv =
                   [called |-> TRUE, out |-> decryptEnv(pIn.env, pIn.o)]]
    /\ UNCHANGED <<variant, pIn, proxy, chainVars>>

\* decrypt(key, pIn.env[key], privateKey, publicKey) of secrets.ts
CallDecrypt(key) ==
    /\ ~pOut.decrypt.called
    /\ pOut' = [pOut EXCEPT !.decrypt =
                   [called |-> TRUE, key |-> key,
                    out |-> decrypt(pIn.o, key, pIn.env[key])]]
    /\ UNCHANGED <<variant, pIn, proxy, chainVars>>

\* decryptValue(key, pIn.env[key], {privateKey, publicKey})
CallDecryptValue(key) ==
    /\ ~pOut.decryptValue.called
    /\ pOut' = [pOut EXCEPT !.decryptValue =
                   [called |-> TRUE, key |-> key,
                    out |-> decryptValue(pIn.o, key, pIn.env[key])]]
    /\ UNCHANGED <<variant, pIn, proxy, chainVars>>

NextDirect ==
    \/ CallWithSecrets
    \/ CallDecryptEnv
    \/ \E key \in MarkedNames(pIn.env) : CallDecrypt(key)
    \/ \E key \in MarkedNames(pIn.env) : CallDecryptValue(key)

SpecDirect == InitDirect /\ [][NextDirect]_vars

-----------------------------------------------------------------------------
(* The lazy proxy of createDecryptProxy over one env object *)

\* the primitive cannot recover a plaintext without a usable private key: it
\* yields nothing or raises; with a non-empty string key any outcome
OraclesOfKeyed(b) ==
    LET privateKey == Get(b, PRIVATE_KEY)
    IN  IF privateKey.type = "string" /\ Truthy(privateKey)
        THEN OraclesOf("direct", b)
        ELSE [MarkedNames(b) -> {Returned(Undefined), Thrown}]

\* createDecryptProxy(env): const cache = new Map(); return new Proxy(env, ...)
createDecryptProxy == [NoProxy EXCEPT !.created = TRUE]

\* the get trap: the value it returns, the cache and the adapter calls after it
get(px, target, o, prop) ==
    IF prop \in DOMAIN px.cache
    THEN [value |-> px.cache[prop], cache |-> px.cache, calls |-> px.calls]
    ELSE LET value == Get(target, prop)
         IN  IF isEncrypted(value)
             THEN LET decrypted == decryptValue(o, prop, value)
                  IN  IF decrypted.threw
                      THEN [value |-> value, cache |-> px.cache,
                            calls |-> Append(px.calls, prop)]
                      ELSE [value |-> decrypted.v,
                            cache |-> Put(px.cache, prop, decrypted.v),
                            calls |-> Append(px.calls, prop)]
             ELSE [value |-> value, cache |-> px.cache, calls |-> px.calls]

InitProxy ==
    /\ variant = "bindings"
    /\ pc = [c \in Chains |-> "idle"]
    /\ running = NoChain
    /\ current = NoStore
    /\ captured = [c \in Chains |-> NoStore]
    /\ bag = [c \in Chains |-> EmptyObj]
    /\ oracle = [c \in Chains |-> EmptyObj]
    /\ heap = [c \in Chains |-> EmptyObj]
    /\ writes = [c \in Chains |-> 0]
    /\ snap0 = [c \in Chains |-> EmptyObj]
    /\ calls = [c \in Chains |-> <<>>]
    /\ log = [c \in Chains |-> <<>>]
    /\ ret = NoRet
    /\ \E b \in BagsOf("direct") : \E o \in OraclesOfKeyed(b) :
          pIn = [env |-> b, o |-> o]
    /\ pOut = NoOutput
    /\ proxy = NoProxy

\* const secrets = createDecryptProxy(pIn.env)
CreateProxy ==
    /\ ~proxy.created
    /\ proxy' = createDecryptProxy
    /\ UNCHANGED <<variant, pIn, pOut, chainVars>>

\* secrets[prop]
ProxyGet(prop) ==
    /\ proxy.created
    /\ proxy.reads < MaxReads
    /\ LET r == get(proxy, pIn.env, pIn.o, prop)
       IN  proxy' = [proxy EXCEPT
                        !.cache = r.cache,
                        !.calls = r.calls,
                        !.reads = @ + 1,
                        !.first = IF prop \in DOMAIN @ THEN @
                                  ELSE Put(@, prop, r.value),
                        !.last = [prop |-> prop, value |-> r.value]]
    /\ UNCHANGED <<variant, pIn, pOut, chainVars>>

NextProxy ==
    \/ CreateProxy
    \/ \E prop \in LookupNames : ProxyGet(prop)

SpecProxy == InitProxy /\ [][NextProxy]_vars

-----------------------------------------------------------------------------
(* Properties *)

\* the handler of chain c was invoked
Started(c) == pc[c] \in {"handler", "suspended", "done", "failed"}

\* the primitive returned a plaintext for name n of chain c
Succeeded(c, n) ==
    /\ n \in DOMAIN oracle[c]
    /\ ~oracle[c][n].threw
    /\ oracle[c][n].v.type = "string"

\* the primitive raised for name n of chain c
Failed(c, n) == n \in DOMAIN oracle[c] /\ oracle[c][n].threw

\* the last call was made by a handler, resolved against store object obj
InsideCall(op) == ret.inside /\ ret.op = op /\ ret.store \in Chains

\* C1: the snapshot withSecrets builds has exactly the names of the bag, and
\* every name whose bag value is not a marked ciphertext keeps its value.
C1_SnapshotKeepsNames ==
    \A c \in Chains :
        Started(c) =>
            /\ DOMAIN snap0[c] = DOMAIN bag[c]
            /\ \A n \in DOMAIN bag[c] :
                  ~isEncrypted(bag[c][n]) => snap0[c][n] = bag[c][n]

\* the non-string values of the env are in the result, under the same name
HandlesKept(r) ==
    r.called =>
        \A n \in DOMAIN pIn.env :
            pIn.env[n].type # "string" =>
                n \in DOMAIN r.out.env /\ r.out.env[n] = pIn.env[n]

\* C2: every resource handle of the bag is in the result of withSecrets
\* (src/src/secrets.ts) and of decryptEnv under its name, key present or not.
C2_HandlesPassThrough ==
    LET key == Get(pIn.env, PRIVATE_KEY)
    IN  (PRIVATE_KEY \notin DOMAIN pIn.env \/ (key.type = "string" /\ Truthy(key))) =>
            /\ variant = "bindings" => HandlesKept(pOut.withSecrets)
            /\ HandlesKept(pOut.decryptEnv)

\* C3: a marked string for which, a private key being present, the primitive
\* returns a plaintext is that plaintext in the snapshot, not the ciphertext,
\* and getSecret of the name in the handler returns the plaintext.
C3_PlaintextInSnapshot ==
    /\ \A c \in Chains : \A n \in DOMAIN bag[c] :
          ( /\ Started(c)
            /\ isEncrypted(bag[c][n])
            /\ Truthy(Get(bag[c], PRIVATE_KEY))
            /\ Succeeded(c, n) ) =>
              /\ n \in DOMAIN snap0[c]
              /\ snap0[c][n] = oracle[c][n].v
              /\ snap0[c][n] # bag[c][n]
    /\ ( /\ InsideCall("getSecret")
         /\ heap[ret.store] = snap0[ret.store]
         /\ ret.key \in DOMAIN bag[ret.store]
         /\ isEncrypted(Get(bag[ret.store], ret.key))
         /\ Truthy(Get(bag[ret.store], PRIVATE_KEY))
         /\ Succeeded(ret.store, ret.key) ) =>
            ret.res = Ok(oracle[ret.store][ret.key].v)

C3_Witness ==
    /\ InsideCall("getSecret")
    /\ ret.key = "MY_SECRET"
    /\ isEncrypted(Get(bag[ret.by], "MY_SECRET"))
    /\ Succeeded(ret.by, "MY_SECRET")
    /\ ret.res = Ok(Str(<<"s", "3", "c">>))

\* the function left every marked string alone: no invocation of the
\* primitive, no exception, the marked strings as they were
Untouched(r) ==
    r.called =>
        /\ r.out.calls = <<>>
        /\ ~r.out.threw
        /\ \A n \in MarkedNames(pIn.env) :
              n \in DOMAIN r.out.env /\ r.out.env[n] = pIn.env[n]

WithoutFailure(c, n) ==
    withSecrets(variant, bag[c],
                [oracle[c] EXCEPT ![n] = Returned(Undefined)]).env

\* C5: when the primitive raises for a marked string, the snapshot holds the
\* original string under that name, every other name is resolved as if the
\* failure had not happened, the handler runs and no error escapes withSecrets.
C5_FailureFallsBack ==
    \A c \in Chains :
        /\ pc[c] # "raised"
        /\ \A n \in DOMAIN bag[c] :
              (Started(c) /\ Failed(c, n)) =>
                  /\ n \in DOMAIN snap0[c]
                  /\ snap0[c][n] = bag[c][n]
                  /\ DOMAIN snap0[c] = DOMAIN WithoutFailure(c, n)
                  /\ \A m \in DOMAIN snap0[c] \ {n} :
                        snap0[c][m] = WithoutFailure(c, n)[m]

C5_Witness ==
    /\ pc["r1"] = "handler"
    /\ Failed("r1", "MY_SECRET")
    /\ Succeeded("r1", "DB")
    /\ snap0["r1"]["MY_SECRET"] = Cipher("a")

\* C6: an accessor called outside a handler's call chain (before withSecrets,
\* or after its handler completed, by return or by exception) fails with
\* NoActiveContext.
C6_NoContextOutside ==
    (ret.op # "none" /\ ~ret.inside) => ret.res = Fail("NoActiveContext")

C6_Witness ==
    /\ ret.op = "requireSecret"
    /\ ~ret.inside
    /\ pc[ret.by] = "failed"
    /\ ret.key \in DOMAIN heap[ret.by]
    /\ \E c \in Chains : pc[c] = "suspended"

\* C7: an accessor called by the handler of a chain, also after the chain was
\* suspended and other chains ran, resolves against that chain's own snapshot.
C7_Isolation ==
    ret.inside =>
        /\ ret.store = ret.by
        /\ ret.res.err # "NoActiveContext"
        /\ ret.op \in {"getEnv", "getAllSecrets"} => ret.res.obj = heap[ret.by]
        /\ ( /\ ret.op \in {"getSecret", "requireSecret", "getBinding"}
             /\ ret.res.err = "none"
             /\ ret.res.v # Undefined ) =>
                ret.res.v = Get(heap[ret.by], ret.key)

C7_Witness ==
    /\ InsideCall("getSecret")
    /\ ret.by = "r1"
    /\ captured["r1"] = "r1"
    /\ pc["r2"] = "suspended"
    /\ ret.key = "MY_SECRET"
    /\ ret.res.v.type = "string"
    /\ ret.res.v # Get(heap["r2"], "MY_SECRET")

\* C8: whatever the handler does to the mappings the accessors returned,
\* getSecret, getBinding and getEnv / getAllSecrets keep returning, for every
\* name, the value the snapshot had when the handler was invoked.
C8_SnapshotImmutable ==
    /\ (InsideCall("getEnv") \/ InsideCall("getAllSecrets")) =>
          ret.res.obj = snap0[ret.by]
    /\ InsideCall("getBinding") => ret.res.v = Get(snap0[ret.by], ret.key)
    /\ InsideCall("getSecret") =>
          LET orig == Get(snap0[ret.by], ret.key)
          IN  \/ ret.res.v = orig
              \/ orig.type # "string" /\ ret.res.v = Undefined

\* C9: in an active context getSecret(name) returns the snapshot's value when
\* it is a string and absent when the name is unmapped; it never returns a
\* non-string value and never raises.
C9_GetValue ==
    InsideCall("getSecret") =>
        /\ ret.res.err = "none"
        /\ ret.res.v.type \in {"string", "undefined"}
        /\ ret.key \notin DOMAIN heap[ret.store] => ret.res.v = Undefined
        /\ ( /\ ret.key \in DOMAIN heap[ret.store]
             /\ heap[ret.store][ret.key].type = "string" ) =>
                ret.res.v = heap[ret.store][ret.key]

\* C10 as stated: requireSecret returns the string getSecret returns, fails with
\* MissingRequiredValue only when the snapshot has no mapping for the name, and
\* fails with NoActiveContext outside an active context.
C10_MissingOnlyWhenUnmapped ==
    ret.op = "requireSecret" =>
        LET g == getSecret(ret.key)
        IN  /\ (g.err = "none" /\ g.v.type = "string") => ret.res = g
            /\ ret.res.err = "MissingRequiredValue" =>
                  ret.key \notin DOMAIN heap[ret.store]
            /\ ~ret.inside => ret.res = Fail("NoActiveContext")

\* C10 amended: requireSecret returns what getSecret returns whenever that is
\* not absent, fails with MissingRequiredValue exactly when getSecret returns
\* absent, hence only when the snapshot does not map the name to a string, and
\* fails with NoActiveContext outside an active context.
C10_MissingWhenAbsent ==
    ret.op = "requireSecret" =>
        LET g == getSecret(ret.key)
        IN  /\ (g.err = "none" /\ g.v # Undefined) => ret.res = g
            /\ ret.res.err = "MissingRequiredValue" <=>
                  (g.err = "none" /\ g.v = Undefined)
            /\ ret.res.err = "MissingRequiredValue" =>
                  ~( /\ ret.key \in DOMAIN heap[ret.store]
                     /\ heap[ret.store][ret.key].type = "string" )
            /\ (ret.inside /\ ret.key \in DOMAIN heap[ret.store]
                  /\ heap[ret.store][ret.key].type = "string") =>
                  ret.res = Ok(heap[ret.store][ret.key])
            /\ ~ret.inside => ret.res = Fail("NoActiveContext")

C10_Witness ==
    /\ InsideCall("requireSecret")
    /\ ret.res = Fail("MissingRequiredValue")
    /\ ret.key \in DOMAIN heap[ret.store]
    /\ heap[ret.store][ret.key].type = "object"

\* the number of invocations of the primitive chain c made for name n
Attempts(c, n) == Cardinality({i \in DOMAIN calls[c] : calls[c][i] = n})

\* C11: in a withSecrets call with a private key present the primitive is
\* invoked exactly once for each marked name and never for another name,
\* whether the attempt failed or not, and however many accessor calls the
\* handler has made since.
C11_AttemptedOncePerMarked ==
    \A c \in Chains :
        (Started(c) /\ Truthy(Get(bag[c], PRIVATE_KEY))) =>
            /\ \A n \in MarkedNames(bag[c]) : Attempts(c, n) = 1
            /\ \A i \in DOMAIN calls[c] : calls[c][i] \in MarkedNames(bag[c])
            /\ Len(calls[c]) = Cardinality(MarkedNames(bag[c]))

C11_Witness ==
    /\ InsideCall("getSecret")
    /\ ret.by = "r1"
    /\ ret.key = "MY_SECRET"
    /\ Failed("r1", "MY_SECRET")
    /\ MarkedNames(bag["r1"]) = {"MY_SECRET", "DB"}
    /\ calls["r1"] = <<"MY_SECRET", "DB">>
    /\ pc["r2"] = "suspended"

\* name n of chain c is settled in snapshot s: the primitive was invoked for
\* it, and s holds the plaintext it returned or else the original string
Resolved(c, n, s) ==
    /\ n \in DOMAIN s
    /\ n \in DOMAIN oracle[c]
    /\ Attempts(c, n) >= 1
    /\ IF Succeeded(c, n) THEN s[n] = oracle[c][n].v ELSE s[n] = bag[c][n]

\* snapshot s of chain c is complete: with a private key every marked name of
\* the bag is settled, and (src/src/secrets.ts) no name of the bag is missing
Complete(c, s) ==
    /\ Truthy(Get(bag[c], PRIVATE_KEY)) =>
          \A n \in MarkedNames(bag[c]) : Resolved(c, n, s)
    /\ variant = "bindings" => DOMAIN s = DOMAIN bag[c]

\* C12: the handler is invoked only with a complete snapshot bound, and an
\* accessor that succeeds reads a store whose construction is over: the
\* snapshot the handler was invoked with, apart from what the handler itself
\* has written to it since.
C12_HandlerAfterResolution ==
    /\ \A c \in Chains :
          Started(c) =>
              /\ Complete(c, snap0[c])
              /\ writes[c] = 0 => heap[c] = snap0[c]
    /\ (ret.op # "none" /\ ret.res.err = "none") =>
          /\ ret.store \in Chains
          /\ pc[ret.store] = "handler"
          /\ writes[ret.store] = 0 => Complete(ret.store, heap[ret.store])
          /\ (ret.op \in {"getEnv", "getAllSecrets"} /\ writes[ret.store] = 0) =>
                Complete(ret.store, ret.res.obj)

C12_Witness ==
    /\ variant = "bindings"
    /\ InsideCall("getEnv")
    /\ ret.by = "r1"
    /\ Truthy(Get(bag["r1"], PRIVATE_KEY))
    /\ MarkedNames(bag["r1"]) = {"MY_SECRET", "DB"}
    /\ Failed("r1", "MY_SECRET")
    /\ Succeeded("r1", "DB")
    /\ ret.res.obj = snap0["r1"]
    /\ ret.res.obj["MY_SECRET"] = bag["r1"]["MY_SECRET"]
    /\ ret.res.obj["DB"] = Str(<<"s", "3", "c">>)

\* the adapter call r returned the plaintext the primitive returned for the
\* name, the raw value when the primitive yielded nothing, and let through
\* what the primitive raised
AdapterMaps(r) ==
    r.called =>
        LET prim == pIn.o[r.key]
        IN  /\ prim.threw => r.out = Thrown
            /\ (~prim.threw /\ prim.v.type = "string") => r.out = Returned(prim.v)
            /\ (~prim.threw /\ prim.v = Undefined) =>
                  r.out = Returned(pIn.env[r.key])

\* C13: decrypt (secrets.ts) and decryptValue (dotenvx-decrypt.ts) return the
\* primitive's plaintext for the name, return the raw value unchanged when the
\* primitive yields nothing for the name, and do not catch what it raises.
C13_AdapterOutcome == AdapterMaps(pOut.decrypt) /\ AdapterMaps(pOut.decryptValue)

C13_Witness ==
    /\ pOut.decrypt.called
    /\ pOut.decrypt.key = "MY_SECRET"
    /\ pIn.o["MY_SECRET"] = Thrown
    /\ pOut.decrypt.out.threw
    /\ pOut.decryptValue.called
    /\ pOut.decryptValue.key = "DB"
    /\ pIn.o["DB"] = Returned(Undefined)
    /\ pOut.decryptValue.out = Returned(Cipher("b"))

\* the last read through the proxy returned what snapshot holds for the name
ReadAgrees(snapshot) == proxy.last.value = Get(snapshot, proxy.last.prop)

\* the proxy agrees with the snapshot withSecrets (src/src/secrets.ts) builds
ProxyEqualsWithSecrets ==
    proxy.reads > 0 => ReadAgrees(withSecrets("bindings", pIn.env, pIn.o).env)

\* the proxy agrees with the object decryptEnv returns
ProxyEqualsDecryptEnv ==
    proxy.reads > 0 => ReadAgrees(decryptEnv(pIn.env, pIn.o).env)

\* C14: for every env object and every name, a read of the name through the
\* proxy returns the value the eagerly built snapshot holds for it, whether
\* built by withSecrets or by decryptEnv, without a private key or with one.
C14_ProxyEqualsEager ==
    LET key == Get(pIn.env, PRIVATE_KEY)
    IN  (PRIVATE_KEY \notin DOMAIN pIn.env \/ (key.type = "string" /\ Truthy(key))) =>
            ProxyEqualsWithSecrets /\ ProxyEqualsDecryptEnv

\* the number of calls of the adapter the proxy made for name n
ProxyAttempts(n) ==
    Cardinality({i \in DOMAIN proxy.calls : proxy.calls[i] = n})

\* C15: over any sequence of reads through a proxy whose env has a private key,
\* the proxy calls the adapter at most once per name, and a later read of a
\* name returns what its first read returned.
C15_MemoizedOnFirstAccess ==
    LET key == Get(pIn.env, PRIVATE_KEY)
    IN  (key.type = "string" /\ Truthy(key)) =>
            /\ \A n \in LookupNames : ProxyAttempts(n) <= 1
            /\ proxy.reads > 0 =>
                  proxy.last.value = proxy.first[proxy.last.prop]

====
